---- MODULE Spec2Model ----
(***************************************************************************)
(* A model of the rspec Runner (src/src/runner/mod.rs): the traversal of a *)
(* Suite tree by Runner::run, the hook brackets wrap_all / wrap_each, the  *)
(* serial and the parallel evaluation of sibling blocks, the observer      *)
(* broadcast, the report tree, the panic hook and the exit decision taken  *)
(* when the Runner is dropped.                                             *)
(*                                                                         *)
(* A node of the tree is named by its path from the root context: <<>> is  *)
(* the root context of the suite, <<2, 1>> the first block of the second   *)
(* block of the root.  The environment T is modelled as the sequence of    *)
(* the hooks that have mutated it (hooks are arbitrary Fn(&mut T), so the  *)
(* history of applications is the most general value).                     *)
(***************************************************************************)
EXTENDS Naturals, Sequences, FiniteSets, TLC

\* process::exit(101)
ExitFailure == 101

\* Largest size of a suite (see Forests).
MaxBlocks == 3
\* Number of hooks in each of the four hook lists of a context.
NumHooks == 2
\* Number of observers registered with the Runner.
NumObservers == 2

VARIABLES
    configuration,  \* Runner.configuration: [parallel, exit_on_failure]
    should_exit,    \* Runner.should_exit
    panic_hook,     \* the process-wide panic hook: "default", "custom", "silent"
    exit_code,      \* <<>> while the process lives, else << its exit code >>
    phase,          \* "idle", "running", "returned" (run has returned),
                    \* "panicked" (run was left by a panic), "dropped"
    suite,          \* the Suite given to run: block path -> "Example" | "Context"
    pc,             \* position of the visit of every node
    cenv,           \* context -> the environment its visit works on
    benv,           \* block -> the clone made for it by evaluate_block
    report,         \* node -> the local `report` of its visit
    breport,        \* block -> the BlockReport returned by its visit
    fired,          \* <<context, hook list, i>> -> number of calls of that hook
    notified,       \* observer -> <<event, node>> -> number of calls it got
    called,         \* example -> number of calls of its function
    suite_report,   \* the local `report` of the visit of the suite
    result,         \* the value the last run returned
    overtaken,      \* history: a block finished before one declared ahead of it
    any_failure,    \* history: a run of this Runner returned a failing report
    delivery,       \* history: the observers the last broadcast called, in order
    handed,         \* <<exit event, node>> -> the report the observers were given
    hook_before,    \* history: the panic hook when the last run was called
    interruption    \* history: "none", or how the last run was left by a panic:
                    \* "panic", "panic_after_failure" (an example had failed)

vars == <<configuration, should_exit, panic_hook, exit_code, phase, suite, pc,
          cenv, benv, report, breport, fired, notified, called, suite_report,
          result, overtaken, any_failure, delivery, handed, hook_before,
          interruption>>

----------------------------------------------------------------------------
(* The tree: Suite, Context, Block, Example.                               *)

\* enum Block { Example(Example<T>), Context(Context<T>) }
Example == [kind |-> "Example", blocks |-> <<>>]

Context(bs) == [kind |-> "Context", blocks |-> bs]

RECURSIVE Forests(_), Trees(_)
\* Every sequence of blocks of size n. The size of a sequence of blocks is the
\* number of its blocks, nested ones included, a nested context without any
\* block counting for two.
Forests(n) ==
    IF n = 0 THEN {<<>>}
    ELSE UNION { { <<t>> \o f : t \in Trees(k), f \in Forests(n - k) } : k \in 1..n }

\* Every block of size k.
Trees(k) ==
    (IF k = 1 THEN {Example} ELSE {})
    \cup (IF k = 2 THEN {Context(<<>>)} ELSE {})
    \cup { Context(f) : f \in Forests(k - 1) \ {<<>>} }

RECURSIVE Paths(_)
Paths(bs) ==
    UNION { {<<i>>} \cup { <<i>> \o p : p \in Paths(bs[i].blocks) } : i \in 1..Len(bs) }

RECURSIVE BlockAt(_, _)
BlockAt(bs, p) ==
    IF Len(p) = 1 THEN bs[p[1]] ELSE BlockAt(bs[p[1]].blocks, Tail(p))

\* The suite whose root context holds the blocks bs, as a map from paths to kinds.
SuiteOf(bs) ==
    [p \in {<<>>} \cup Paths(bs) |->
        IF p = <<>> THEN "Context" ELSE BlockAt(bs, p).kind]

Suites == { SuiteOf(bs) : bs \in UNION { Forests(n) : n \in 0..MaxBlocks } }

EmptySuite == SuiteOf(<<>>)

Root == <<>>
Nodes == DOMAIN suite
Blocks == Nodes \ {Root}
Contexts == { n \in Nodes : suite[n] = "Context" }
Examples == { n \in Nodes : suite[n] = "Example" }

Parent(n) == SubSeq(n, 1, Len(n) - 1)
Index(n) == n[Len(n)]
\* context.blocks, as the paths of the blocks in declaration order
NumBlocks(c) == Cardinality({ n \in Blocks : Parent(n) = c })
blocks(c) == [i \in 1..NumBlocks(c) |-> Append(c, i)]

\* a root context that is given a header like the others
HasHeaderAlways(c) == TRUE

\* context.header: only the root context of a suite has none
HasHeader(c) == c # Root

----------------------------------------------------------------------------
(* Counters of calls: a key that was never counted stands at 0.            *)

Count(f, k) == IF k \in DOMAIN f THEN f[k] ELSE 0

Incr(f, k) == (k :> Count(f, k) + 1) @@ f

----------------------------------------------------------------------------
(* Environment and hooks.                                                  *)

HookKinds == {"before_all", "before_each", "after_each", "after_all"}

\* suite.environment
InitialEnvironment == <<>>

\* T::clone
Clone(environment) == environment

\* a loop that calls the hooks of the after lists last to first
RunHooksAfterReversed(c, kind, environment) ==
    environment \o [i \in 1..NumHooks |->
        <<c, kind, IF kind \in {"after_each", "after_all"} THEN NumHooks + 1 - i ELSE i>>]

\* for f in context.<kind>.iter() { f(environment) }
RunHooks(c, kind, environment) ==
    environment \o [i \in 1..NumHooks |-> <<c, kind, i>>]

\* the calls made by that loop for each context of cs, added to the count of
\* every hook of the list
CountHooks(f, cs, kind) ==
    LET list == { <<c, kind, i>> : c \in cs, i \in 1..NumHooks }
    IN  [k \in (DOMAIN f) \cup list |-> Count(f, k) + (IF k \in list THEN 1 ELSE 0)]

----------------------------------------------------------------------------
(* Observers.                                                              *)

observers == [i \in 1..NumObservers |-> i]

Events == {"enter_suite", "exit_suite", "enter_context", "exit_context",
           "enter_example", "exit_example"}

\* a broadcast that walks the observers last to first
broadcast_calls_reversed ==
    [i \in 1..Len(observers) |-> observers[Len(observers) + 1 - i]]

\* Runner::broadcast: for observer in &self.observers { f(observer.borrow()) },
\* the observers f is called with, in the order of the calls
broadcast_calls == [i \in 1..Len(observers) |-> observers[i]]

\* a broadcast that returns after the first observer
broadcast_first(calls, event, n) ==
    [o \in 1..Len(observers) |->
        IF o = 1 THEN Incr(calls[o], <<event, n>>) ELSE calls[o]]

\* Runner::broadcast: f is called once with every observer, in order
broadcast(calls, event, n) ==
    [o \in 1..Len(observers) |-> Incr(calls[o], <<event, n>>)]

----------------------------------------------------------------------------
(* Reports.                                                                *)

ExampleReports == {"Success", "Ignored", "Failure"}

\* the place of a BlockReport, a SuiteReport that is not there yet
NoReport == [kind |-> "none"]

\* the place of an ExampleReport that is not there yet
NoExampleReport == "none"

\* the locals `report` of the visits of the nodes of suite s, before the visits
NoReports(s) ==
    [n \in DOMAIN s |-> IF s[n] = "Example" THEN NoExampleReport ELSE <<NoReport>>]

\* BlockReport::Example(header, report)
BlockReportExample(header, r) == [kind |-> "Example", header |-> header, report |-> r]

\* a BlockReport::Context that is given a fresh, empty ContextReport
BlockReportContextEmpty(header, r) ==
    [kind |-> "Context", header |-> header, report |-> <<>>]

\* BlockReport::Context(header, report)
BlockReportContext(header, r) == [kind |-> "Context", header |-> header, report |-> r]

\* SuiteReport::new(header, context_report)
SuiteReport(r) == [header |-> "suite", context |-> r]

RECURSIVE BlockReportIsFailure(_)
\* Report::is_failure for a BlockReport
BlockReportIsFailure(br) ==
    IF br.kind = "Example"
    THEN br.report = "Failure"
    ELSE \E i \in 1..Len(br.report) : BlockReportIsFailure(br.report[i])

\* Report::is_failure for a ContextReport
ContextReportIsFailure(cr) ==
    \E i \in 1..Len(cr) : BlockReportIsFailure(cr[i])

\* Report::is_failure for a SuiteReport
is_failure(sr) == ContextReportIsFailure(sr.context)

----------------------------------------------------------------------------
(* The state after Runner::new.                                            *)

ContextsOf(s) == { n \in DOMAIN s : s[n] = "Context" }
ExamplesOf(s) == { n \in DOMAIN s : s[n] = "Example" }
BlocksOf(s) == (DOMAIN s) \ {Root}

NoCalls == [o \in 1..Len(observers) |-> << >>]

\* Runner::new: should_exit is Mutex::new(Cell::new(false))
Init ==
    /\ configuration \in [parallel : BOOLEAN, exit_on_failure : BOOLEAN]
    /\ should_exit = FALSE
    /\ panic_hook = "default"
    /\ exit_code = <<>>
    /\ phase = "idle"
    /\ suite = EmptySuite
    /\ pc = [n \in DOMAIN EmptySuite |-> "pending"]
    /\ cenv = [n \in ContextsOf(EmptySuite) |-> InitialEnvironment]
    /\ benv = [n \in BlocksOf(EmptySuite) |-> InitialEnvironment]
    /\ report = NoReports(EmptySuite)
    /\ breport = [n \in BlocksOf(EmptySuite) |-> NoReport]
    /\ fired = << >>
    /\ notified = NoCalls
    /\ called = [n \in ExamplesOf(EmptySuite) |-> 0]
    /\ suite_report = NoReport
    /\ result = NoReport
    /\ overtaken = FALSE
    /\ any_failure = FALSE
    /\ delivery = <<>>
    /\ handed = << >>
    /\ hook_before = "default"
    /\ interruption = "none"

----------------------------------------------------------------------------
(* Runner::run, up to the visit of the suite.                              *)

\* Runner::prepare_before_run: panic::set_hook(silent)
prepare_before_run == "silent"

\* a clean_after_run that leaves the hook of prepare_before_run in place
clean_after_run_skipped == "silent"

\* Runner::clean_after_run: panic::take_hook() unregisters the hook
clean_after_run == "default"

\* run: let mut environment = suite.environment.clone(); self.prepare_before_run();
RunStart(s) ==
    /\ phase \in {"idle", "returned"}
    /\ phase' = "running"
    /\ suite' = s
    /\ panic_hook' = prepare_before_run
    /\ pc' = [n \in DOMAIN s |-> "pending"]
    /\ cenv' = [n \in ContextsOf(s) |-> Clone(InitialEnvironment)]
    /\ benv' = [n \in BlocksOf(s) |-> InitialEnvironment]
    /\ report' = NoReports(s)
    /\ breport' = [n \in BlocksOf(s) |-> NoReport]
    /\ fired' = << >>
    /\ notified' = NoCalls
    /\ called' = [n \in ExamplesOf(s) |-> 0]
    /\ suite_report' = NoReport
    /\ result' = NoReport
    /\ overtaken' = FALSE
    /\ delivery' = <<>>
    /\ handed' = << >>
    /\ hook_before' = panic_hook
    /\ interruption' = "none"
    /\ UNCHANGED <<configuration, should_exit, exit_code, any_failure>>

runner == <<configuration, should_exit, panic_hook, exit_code, phase, suite,
            any_failure, hook_before, interruption>>

----------------------------------------------------------------------------
(* TestSuiteVisitor<Suite>, <Context>: entering.                           *)

\* a wrap_each applied to every example with the hooks of all the contexts
\* above it, and not to nested contexts
wrap_each_per_leaf(b) ==
    IF suite[b] = "Example" THEN { SubSeq(b, 1, k) : k \in 0..(Len(b) - 1) } ELSE {}

\* a wrap_each that is applied to examples only, and not to nested contexts
wrap_each_for_examples(b) == IF b \in Examples THEN {Parent(b)} ELSE {}

\* a wrap_each that also runs the hooks of the nested contexts next to block b
wrap_each_hoisted(b) ==
    {Parent(b)} \cup { c \in Contexts \ {Root} : c # b /\ Parent(c) = Parent(b) }

\* evaluate_block(block, context, ..) calls self.wrap_each(context, ..): the
\* contexts whose before_each and after_each hooks run around block b
wrap_each(b) == {Parent(b)}

\* a wrap_all whose hooks are skipped for a context without blocks
wrap_all_unless_empty(c) == IF NumBlocks(c) = 0 THEN {} ELSE {c}

\* the Context visit calls self.wrap_all(context, ..): the contexts whose
\* before_all and after_all hooks run around the blocks of context c
wrap_all(c) == {c}

\* a Context visit that broadcasts exit_context where it broadcasts enter_context
EnterAndExitContextEvent(calls, c) ==
    IF HasHeader(c)
    THEN broadcast(broadcast(calls, "enter_context", c), "exit_context", c)
    ELSE calls

\* Context visit: if let Some(ref header) = context.header { broadcast(enter_context) }
EnterContextEvent(calls, c) ==
    IF HasHeader(c) THEN broadcast(calls, "enter_context", c) ELSE calls

\* Context visit: if let Some(ref header) = context.header { broadcast(exit_context) }
ExitContextEvent(calls, c) ==
    IF HasHeader(c) THEN broadcast(calls, "exit_context", c) ELSE calls

\* Suite visit: broadcast(enter_suite), then the visit of suite.context starts
EnterSuite ==
    /\ phase = "running"
    /\ pc[Root] = "pending"
    /\ delivery' = broadcast_calls
    /\ notified' = EnterContextEvent(broadcast(notified, "enter_suite", Root), Root)
    /\ pc' = [pc EXCEPT ![Root] = "entered"]
    /\ UNCHANGED <<runner, handed, cenv, benv, report, breport, fired, called,
                   suite_report, result,
                   overtaken>>

\* Block visit, Block::Context arm: self.visit(context, &mut environment.clone())
EnterContext(c) ==
    /\ phase = "running"
    /\ c \in Contexts \ {Root}
    /\ pc[c] = "ready"
    /\ cenv' = [cenv EXCEPT ![c] = Clone(benv[c])]
    /\ delivery' = broadcast_calls
    /\ notified' = EnterContextEvent(notified, c)
    /\ pc' = [pc EXCEPT ![c] = "entered"]
    /\ UNCHANGED <<runner, handed, benv, report, breport, fired, called, suite_report,
                   result,
                   overtaken>>

\* wrap_all: for before_function in context.before_all.iter()
BeforeAll(c) ==
    /\ phase = "running"
    /\ c \in Contexts
    /\ pc[c] = "entered"
    /\ cenv' = [cenv EXCEPT ![c] = RunHooks(c, "before_all", @)]
    /\ fired' = CountHooks(fired, wrap_all(c), "before_all")
    /\ pc' = [pc EXCEPT ![c] = "children"]
    /\ UNCHANGED <<runner, handed, delivery, benv, report, breport, notified, called,
                   suite_report, result,
                   overtaken>>

----------------------------------------------------------------------------
(* The scheduler: evaluate_blocks_serial, evaluate_blocks_parallel and     *)
(* evaluate_block.                                                         *)

\* a serial evaluation that walks the blocks last to first
evaluate_blocks_backwards(c, b) ==
    \A i \in (Index(b) + 1)..NumBlocks(c) : pc[blocks(c)[i]] = "done"

\* a serial evaluation that goes on to the next block when the visit of a
\* block is over, ahead of the after_each hooks
evaluate_blocks_pipelined(c, b) ==
    \A i \in 1..(Index(b) - 1) : pc[blocks(c)[i]] \in {"exited", "done"}

\* a serial evaluation that starts the blocks in any order
evaluate_blocks_unordered(c, b) == TRUE

\* a serial evaluation that stops at the first failing block
evaluate_blocks_until_failure(c, b) ==
    \A i \in 1..(Index(b) - 1) :
        pc[blocks(c)[i]] = "done" /\ ~BlockReportIsFailure(breport[blocks(c)[i]])

\* blocks.iter().map(..): a block is evaluated once the blocks before it are
evaluate_blocks_serial(c, b) ==
    \A i \in 1..(Index(b) - 1) : pc[blocks(c)[i]] = "done"

\* blocks.par_iter().map(..): a block is evaluated at any time
evaluate_blocks_parallel(c, b) == TRUE

\* a collect that gathers the reports last block first
CollectReversed(c) ==
    [i \in 1..NumBlocks(c) |-> breport[blocks(c)[NumBlocks(c) + 1 - i]]]

\* .collect(): the reports of the blocks, each at the index of its block
Collect(c) ==
    [i \in 1..NumBlocks(c) |-> breport[blocks(c)[i]]]

\* an evaluate_block that hands the environment of the context itself to
\* wrap_each, so that the context is left with what the hooks made of it
SharedEnvironment(c, environment) == environment

\* the environment a context is left with by the evaluation of one of its
\* blocks: evaluate_block works on environment.clone()
OwnerEnvironment(c, environment) == cenv[c]

\* evaluate_block: clone the environment; wrap_each: the before_each hooks
StartBlock(b) ==
    /\ phase = "running"
    /\ b \in Blocks
    /\ pc[b] = "pending"
    /\ pc[Parent(b)] = "children"
    /\ IF configuration.parallel
       THEN evaluate_blocks_parallel(Parent(b), b)
       ELSE evaluate_blocks_serial(Parent(b), b)
    /\ LET environment == RunHooks(Parent(b), "before_each", Clone(cenv[Parent(b)]))
       IN  /\ benv' = [benv EXCEPT ![b] = environment]
           /\ cenv' = [cenv EXCEPT ![Parent(b)] = OwnerEnvironment(Parent(b), environment)]
    /\ fired' = CountHooks(fired, wrap_each(b), "before_each")
    /\ pc' = [pc EXCEPT ![b] = "ready"]
    /\ UNCHANGED <<runner, handed, delivery, report, breport, notified, called, suite_report,
                   result,
                   overtaken>>

\* wrap_each: the after_each hooks, then evaluate_block returns the BlockReport
FinishBlock(b) ==
    /\ phase = "running"
    /\ b \in Blocks
    /\ pc[b] = "exited"
    /\ benv' = [benv EXCEPT ![b] = RunHooks(Parent(b), "after_each", @)]
    /\ fired' = CountHooks(fired, wrap_each(b), "after_each")
    /\ pc' = [pc EXCEPT ![b] = "done"]
    /\ overtaken' = (overtaken \/ \E i \in 1..(Index(b) - 1) :
                                     pc[blocks(Parent(b))[i]] # "done")
    /\ UNCHANGED <<runner, handed, delivery, cenv, report, breport, notified, called,
                   suite_report, result>>

----------------------------------------------------------------------------
(* TestSuiteVisitor<Example>.                                              *)

\* broadcast(enter_example)
EnterExample(n) ==
    /\ phase = "running"
    /\ n \in Examples
    /\ pc[n] = "ready"
    /\ delivery' = broadcast_calls
    /\ notified' = broadcast(notified, "enter_example", n)
    /\ pc' = [pc EXCEPT ![n] = "entered"]
    /\ UNCHANGED <<runner, handed, cenv, benv, report, breport, fired, called,
                   suite_report, result,
                   overtaken>>

\* a function that is given the environment to mutate, as the hooks are
function_effect_mut(n, environment) == Append(environment, <<n, "function", 1>>)

\* Example::function is a Fn(&T) -> ExampleReport: what the call leaves of the
\* environment it is given
function_effect(n, environment) == environment

\* let report = function(environment): r is what the function returns
RunExample(n, r) ==
    /\ phase = "running"
    /\ n \in Examples
    /\ pc[n] = "entered"
    /\ called' = [called EXCEPT ![n] = @ + 1]
    /\ benv' = [benv EXCEPT ![n] = function_effect(n, @)]
    /\ report' = [report EXCEPT ![n] = r]
    /\ pc' = [pc EXCEPT ![n] = "ran"]
    /\ UNCHANGED <<runner, handed, delivery, cenv, breport, fired, notified,
                   suite_report, result, overtaken>>

\* an exit_example that is given a report of its own making
exit_example_report_fresh(n) == "Success"

\* handler.exit_example(&example.header, &report): the local report, borrowed
exit_example_report(n) == report[n]

\* broadcast(exit_example); the Block visit returns BlockReport::Example(header, report)
ExitExample(n) ==
    /\ phase = "running"
    /\ n \in Examples
    /\ pc[n] = "ran"
    /\ delivery' = broadcast_calls
    /\ notified' = broadcast(notified, "exit_example", n)
    /\ handed' = (<<"exit_example", n>> :> exit_example_report(n)) @@ handed
    /\ breport' = [breport EXCEPT ![n] = BlockReportExample(n, report[n])]
    /\ pc' = [pc EXCEPT ![n] = "exited"]
    /\ UNCHANGED <<runner, cenv, benv, report, fired, called, suite_report,
                   result,
                   overtaken>>

----------------------------------------------------------------------------
(* TestSuiteVisitor<Context>, <Suite>: leaving.                            *)

\* a collect that hands over as soon as every block has been started
blocks_started(c) == \A i \in 1..NumBlocks(c) : pc[blocks(c)[i]] # "pending"

\* .map(|block| self.evaluate_block(..)).collect(): the reports are there when
\* evaluate_block has returned for every block
blocks_evaluated(c) == \A i \in 1..NumBlocks(c) : pc[blocks(c)[i]] = "done"

\* wrap_all: f returns the collected reports, then the after_all hooks run;
\* ContextReport::new(reports)
AfterAll(c) ==
    /\ phase = "running"
    /\ c \in Contexts
    /\ pc[c] = "children"
    /\ blocks_evaluated(c)
    /\ report' = [report EXCEPT ![c] = Collect(c)]
    /\ cenv' = [cenv EXCEPT ![c] = RunHooks(c, "after_all", @)]
    /\ fired' = CountHooks(fired, wrap_all(c), "after_all")
    /\ pc' = [pc EXCEPT ![c] = "wrapped"]
    /\ UNCHANGED <<runner, handed, delivery, benv, breport, notified, called, suite_report,
                   result,
                   overtaken>>

\* handler.exit_context(&header, &report): the local report, borrowed
exit_context_report(c) == report[c]

\* broadcast(exit_context); the Block visit returns BlockReport::Context(header, report)
ExitContext(c) ==
    /\ phase = "running"
    /\ c \in Contexts \ {Root}
    /\ pc[c] = "wrapped"
    /\ delivery' = broadcast_calls
    /\ notified' = ExitContextEvent(notified, c)
    /\ handed' = (IF HasHeader(c)
                  THEN (<<"exit_context", c>> :> exit_context_report(c)) @@ handed
                  ELSE handed)
    /\ breport' = [breport EXCEPT ![c] = BlockReportContext(c, report[c])]
    /\ pc' = [pc EXCEPT ![c] = "exited"]
    /\ UNCHANGED <<runner, cenv, benv, report, fired, called, suite_report,
                   result,
                   overtaken>>

\* handler.exit_suite(&suite.header, &report): the local report, borrowed
exit_suite_report == SuiteReport(report[Root])

\* Suite visit: SuiteReport::new(header, visit(context)); broadcast(exit_suite)
ExitSuite ==
    /\ phase = "running"
    /\ pc[Root] = "wrapped"
    /\ suite_report' = SuiteReport(report[Root])
    /\ delivery' = broadcast_calls
    /\ notified' = broadcast(ExitContextEvent(notified, Root), "exit_suite", Root)
    /\ handed' = (<<"exit_suite", Root>> :> exit_suite_report) @@ handed
    /\ pc' = [pc EXCEPT ![Root] = "exited"]
    /\ UNCHANGED <<runner, cenv, benv, report, breport, fired, called, result,
                   overtaken>>

----------------------------------------------------------------------------
(* Runner::run after the visit, and Drop.                                  *)

\* a run that assigns the flag where it is to or it
ShouldExitLast(flag, r) == is_failure(r)

\* *mutex_guard.deref_mut().get_mut() |= report.is_failure()
ShouldExitAfter(flag, r) == flag \/ is_failure(r)

\* what run hands back to its caller
RunResult(r) == r

\* self.clean_after_run(); should_exit |= report.is_failure(); report
RunReturn ==
    /\ phase = "running"
    /\ pc[Root] = "exited"
    /\ panic_hook' = clean_after_run
    /\ should_exit' = ShouldExitAfter(should_exit, suite_report)
    /\ result' = RunResult(suite_report)
    /\ phase' = "returned"
    /\ any_failure' = (any_failure \/ is_failure(suite_report))
    /\ UNCHANGED <<configuration, exit_code, suite, pc, cenv, benv, report,
                   breport, fired, notified, called, suite_report, overtaken,
                   delivery, handed, hook_before, interruption>>

\* a flag that is set from the visit, as soon as an example has failed
ShouldExitEager(flag, failed) == flag \/ failed

\* the flag is written at runner/mod.rs:54-56 alone, after the visit: a panic
\* of the visit leaves run before that, with the flag as it was
ShouldExitInterrupted(flag, failed) == flag

\* a run that catches the panic of its visit and returns all the same
PanicCaught == "returned"

\* let report = self.visit(&suite, &mut environment) is never bound when the
\* visit panics: there is no catch_unwind, run is unwound with the visit
PanicUnwinds == "panicked"

\* A hook of a context or a callback of an observer panics: nothing in run or
\* in the visit catches it, the frames of the visit are unwound and their
\* locals dropped, run is left without a value and without clean_after_run.
\* What the run in progress had recorded in the history variables goes with
\* it.  The Runner is not run again after that: it is dropped.
Panic ==
    /\ phase = "running"
    /\ pc[Root] # "exited"
    /\ phase' = PanicUnwinds
    /\ pc' = [n \in Nodes |-> "pending"]
    /\ cenv' = [n \in Contexts |-> InitialEnvironment]
    /\ benv' = [n \in Blocks |-> InitialEnvironment]
    /\ report' = NoReports(suite)
    /\ breport' = [n \in Blocks |-> NoReport]
    /\ fired' = << >>
    /\ notified' = NoCalls
    /\ called' = [n \in Examples |-> 0]
    /\ suite_report' = NoReport
    /\ result' = NoReport
    /\ overtaken' = FALSE
    /\ delivery' = <<>>
    /\ handed' = << >>
    /\ interruption' = (IF \E n \in Examples : report[n] = "Failure"
                        THEN "panic_after_failure" ELSE "panic")
    /\ should_exit' = ShouldExitInterrupted(should_exit,
                                            \E n \in Examples : report[n] = "Failure")
    /\ UNCHANGED <<configuration, panic_hook, exit_code, suite, any_failure,
                   hook_before>>

\* The caller of the Runner registers a panic hook of its own between two
\* runs: panic::set_hook(custom).
SetHook ==
    /\ phase \in {"idle", "returned"}
    /\ panic_hook # "custom"
    /\ panic_hook' = "custom"
    /\ UNCHANGED <<configuration, should_exit, exit_code, phase, suite, pc, cenv,
                   benv, report, breport, fired, notified, called, suite_report,
                   result, overtaken, any_failure, delivery, handed, hook_before,
                   interruption>>

\* a Drop that does not look at configuration.exit_on_failure
DropExitCodeUnconfigured ==
    IF should_exit THEN <<ExitFailure>> ELSE exit_code

\* Drop: if self.configuration.exit_on_failure && should_exit { process::exit(101) }
DropExitCode ==
    IF configuration.exit_on_failure /\ should_exit THEN <<ExitFailure>> ELSE exit_code

Drop ==
    /\ phase \in {"idle", "returned", "panicked"}
    /\ exit_code' = DropExitCode
    /\ phase' = "dropped"
    /\ UNCHANGED <<configuration, should_exit, panic_hook, suite, pc, cenv, benv,
                   report, breport, fired, notified, called, suite_report, result,
                   overtaken, any_failure, delivery, handed, hook_before,
                   interruption>>

----------------------------------------------------------------------------

(***************************************************************************)
(* The claims.                                                             *)
(***************************************************************************)

Children(c) == { b \in Blocks : Parent(b) = c }

Fired(c, kind, i) == Count(fired, <<c, kind, i>>)

Received(o, event, n) == Count(notified[o], <<event, n>>)

RECURSIVE Isomorphic(_, _)
\* The ContextReport cr mirrors context c: one BlockReport per block, of the
\* kind of that block and under its header, at the index of the block.
Isomorphic(cr, c) ==
    /\ Len(cr) = NumBlocks(c)
    /\ \A i \in 1..Len(cr) :
          /\ cr[i].kind = suite[Append(c, i)]
          /\ cr[i].header = Append(c, i)
          /\ IF suite[Append(c, i)] = "Context"
             THEN Isomorphic(cr[i].report, Append(c, i))
             ELSE cr[i].report \in ExampleReports

\* C1: under either policy the report a run returns mirrors the suite: every
\* context yields one BlockReport per block, of the kind of the block, at the
\* index of the block in declaration order, whatever the order of completion.
C1_ReportIsomorphic ==
    phase = "returned" =>
        /\ result.header = "suite"
        /\ Isomorphic(result.context, Root)

\* C1 witness: a parallel run has returned the report of a suite with a nested
\* context although a block finished before one declared ahead of it.
C1_Witness ==
    /\ phase = "returned"
    /\ configuration.parallel
    /\ overtaken
    /\ NumBlocks(Root) >= 2
    /\ \E c \in Contexts \ {Root} : NumBlocks(c) >= 1
    /\ Isomorphic(result.context, Root)

\* C2: every before_each hook of a context has fired once per block of that
\* context whose bracket has started, every after_each hook once per block
\* whose bracket has ended, and so once per block when the run returns: never
\* once per example beneath a nested context.
C2_EachHooksOncePerBlock ==
    \A c \in Contexts :
        LET started == Cardinality({ b \in Children(c) : pc[b] # "pending" })
            ended == Cardinality({ b \in Children(c) : pc[b] = "done" })
        IN  \A i \in 1..NumHooks :
                /\ Fired(c, "before_each", i) = started
                /\ Fired(c, "after_each", i) = ended
                /\ phase = "returned" =>
                      /\ Fired(c, "before_each", i) = NumBlocks(c)
                      /\ Fired(c, "after_each", i) = NumBlocks(c)

\* C2 witness: a run has returned for a root context whose only block is a
\* nested context of two examples, and the before_each and after_each hooks of
\* the root have fired once.
C2_Witness ==
    /\ phase = "returned"
    /\ NumBlocks(Root) = 1
    /\ suite[<<1>>] = "Context"
    /\ NumBlocks(<<1>>) = 2
    /\ Children(<<1>>) \subseteq Examples
    /\ \A i \in 1..NumHooks :
          Fired(Root, "before_each", i) = 1 /\ Fired(Root, "after_each", i) = 1

\* C3: every before_all hook of a context has fired exactly once as soon as and
\* as long as the blocks of the context may be evaluated, every after_all hook
\* exactly once after all of them have been, whatever the number of blocks and
\* the policy.
C3_AllHooksOncePerVisit ==
    \A c \in Contexts :
        LET some_started == \E b \in Children(c) : pc[b] # "pending"
            all_done == \A b \in Children(c) : pc[b] = "done"
        IN  \A i \in 1..NumHooks :
                /\ Fired(c, "before_all", i) =
                      (IF pc[c] \in {"children", "wrapped", "exited", "done"} THEN 1 ELSE 0)
                /\ Fired(c, "after_all", i) =
                      (IF pc[c] \in {"wrapped", "exited", "done"} THEN 1 ELSE 0)
                /\ some_started => Fired(c, "before_all", i) = 1
                /\ Fired(c, "after_all", i) = 1 => all_done
                /\ phase = "returned" =>
                      Fired(c, "before_all", i) = 1 /\ Fired(c, "after_all", i) = 1

\* C3 witness: a parallel run has returned for a suite with a context of two
\* blocks and a context without blocks, and the hooks of both fired once.
C3_Witness ==
    /\ phase = "returned"
    /\ configuration.parallel
    /\ \E c, d \in Contexts :
          /\ NumBlocks(c) = 0
          /\ NumBlocks(d) >= 2
          /\ \A i \in 1..NumHooks :
                /\ Fired(c, "before_all", i) = 1 /\ Fired(c, "after_all", i) = 1
                /\ Fired(d, "before_all", i) = 1 /\ Fired(d, "after_all", i) = 1

\* C4: in a context whose blocks are all examples, a counter incremented by a
\* before_each hook stands at i while the i-th example runs under the serial
\* policy, and at the number of examples once the blocks have all been
\* evaluated, under either policy and whatever the interleaving.
C4_CounterCountsExamples ==
    \A c \in Contexts : Children(c) \subseteq Examples =>
        \A i \in 1..NumHooks :
            /\ ~configuration.parallel =>
                  \A n \in Children(c) :
                      pc[n] \in {"entered", "ran"} =>
                          Fired(c, "before_each", i) = Index(n)
            /\ pc[c] \in {"wrapped", "exited", "done"} =>
                  Fired(c, "before_each", i) = NumBlocks(c)

\* C4 witness: a parallel run of a root context of three examples has returned,
\* an example having finished before one declared ahead of it, and the counter
\* stands at three.
C4_Witness ==
    /\ phase = "returned"
    /\ configuration.parallel
    /\ overtaken
    /\ NumBlocks(Root) = 3
    /\ Children(Root) \subseteq Examples
    /\ Fired(Root, "before_each", 1) = 3

\* C5: the report a run returns is failing exactly when the function of some
\* example of the suite, at any depth, returned Failure.
C5_FailureIffSomeExampleFailed ==
    phase = "returned" =>
        (is_failure(result) <=> \E n \in Examples : report[n] = "Failure")

\* C5 witness: a returned report is failing because of one example nested in a
\* context, the other examples having returned Success or Ignored.
C5_Witness ==
    /\ phase = "returned"
    /\ is_failure(result)
    /\ \E n \in Examples :
          /\ Len(n) >= 2
          /\ report[n] = "Failure"
          /\ \A m \in Examples \ {n} : report[m] \in {"Success", "Ignored"}
          /\ \E m \in Examples \ {n} : report[m] = "Ignored"

\* C6: the process is terminated only when the Runner is dropped; it is then
\* terminated, with code 101, exactly when exit_on_failure is set and a run of
\* the Runner returned a failing report; without exit_on_failure it never is.
C6_ExitCode ==
    /\ exit_code # <<>> => phase = "dropped"
    /\ phase = "dropped" =>
          exit_code = (IF configuration.exit_on_failure /\ any_failure
                       THEN <<101>> ELSE <<>>)
    /\ ~configuration.exit_on_failure => exit_code = <<>>

\* C6 witness: a Runner with exit_on_failure was dropped after a run in which
\* two examples failed, one of them in a nested context, and the process ended
\* with code 101.
C6_Witness ==
    /\ phase = "dropped"
    /\ exit_code = <<101>>
    /\ configuration.exit_on_failure
    /\ \E n, m \in Examples :
          /\ Len(n) = 1 /\ Len(m) >= 2
          /\ report[n] = "Failure" /\ report[m] = "Failure"

\* C7 as stated: when a run has returned every observer has received one enter
\* and one exit notification for the suite, for every context and for every
\* example.
C7_OnePairPerNode ==
    phase = "returned" =>
        \A o \in 1..Len(observers) :
            /\ Received(o, "enter_suite", Root) = 1
            /\ Received(o, "exit_suite", Root) = 1
            /\ \A c \in Contexts :
                  /\ Received(o, "enter_context", c) = 1
                  /\ Received(o, "exit_context", c) = 1
            /\ \A n \in Examples :
                  /\ Received(o, "enter_example", n) = 1
                  /\ Received(o, "exit_example", n) = 1

\* C7 amended: no observer ever receives a notification twice, and when a run
\* has returned every observer has received one enter and one exit
\* notification for the suite, for every context that has a header and for
\* every example, and none for a context without header.
C7_OnePairPerHeadedNode ==
    \A o \in 1..Len(observers) :
        /\ \A k \in DOMAIN notified[o] : notified[o][k] <= 1
        /\ phase = "returned" =>
              /\ Received(o, "enter_suite", Root) = 1
              /\ Received(o, "exit_suite", Root) = 1
              /\ \A c \in Contexts :
                    /\ Received(o, "enter_context", c) = (IF HasHeader(c) THEN 1 ELSE 0)
                    /\ Received(o, "exit_context", c) = (IF HasHeader(c) THEN 1 ELSE 0)
              /\ \A n \in Examples :
                    /\ Received(o, "enter_example", n) = 1
                    /\ Received(o, "exit_example", n) = 1

\* C7 witness: a parallel run of a suite with an example and a nested context
\* has returned, and each of at least two observers holds its pairs.
C7_Witness ==
    /\ phase = "returned"
    /\ configuration.parallel
    /\ Len(observers) >= 2
    /\ \E c \in Contexts \ {Root}, n \in Examples :
          \A o \in 1..Len(observers) :
              /\ Received(o, "enter_context", c) = 1
              /\ Received(o, "exit_context", c) = 1
              /\ Received(o, "enter_example", n) = 1
              /\ Received(o, "exit_example", n) = 1

\* Result::Ok(()) and Result::Err(report)
Ok == [tag |-> "Ok"]
Err(r) == [tag |-> "Err", report |-> r]

\* C8: run yields Ok(()) when the report of the suite is not failing and
\* Err(report) when it is.
C8_RunYieldsResult ==
    phase = "returned" =>
        result = (IF is_failure(suite_report) THEN Err(suite_report) ELSE Ok)

\* C9: the function of an example is called once, when its visit reaches it,
\* whatever the other examples returned: a block waits for nothing but the
\* policy (under the serial one, for the blocks declared before it to be
\* done), a context for nothing but its blocks, and when the run returns every
\* function has been called once and every bracket is closed.
C9_FailureNeverAborts ==
    /\ \A n \in Examples :
          called[n] = (IF pc[n] \in {"ran", "exited", "done"} THEN 1 ELSE 0)
    /\ phase = "running" =>
          /\ \A b \in Blocks :
                ( /\ pc[b] = "pending"
                  /\ pc[Parent(b)] = "children"
                  /\ \/ configuration.parallel
                     \/ \A a \in Children(Parent(b)) :
                           Index(a) < Index(b) => pc[a] = "done" )
                => ENABLED StartBlock(b)
          /\ \A c \in Contexts :
                (pc[c] = "children" /\ \A b \in Children(c) : pc[b] = "done")
                => ENABLED AfterAll(c)
    /\ phase = "returned" =>
          /\ \A n \in Examples : called[n] = 1
          /\ \A b \in Blocks : pc[b] = "done"
          /\ \A c \in Contexts : \A i \in 1..NumHooks :
                /\ Fired(c, "before_all", i) = 1
                /\ Fired(c, "after_all", i) = 1
                /\ Fired(c, "before_each", i) = NumBlocks(c)
                /\ Fired(c, "after_each", i) = NumBlocks(c)

\* C9 witness: a serial run has returned in which an example nested in the
\* first block failed and an example declared after that block was called.
C9_Witness ==
    /\ phase = "returned"
    /\ ~configuration.parallel
    /\ \E n, m \in Examples :
          /\ Len(n) = 2 /\ n[1] = 1 /\ report[n] = "Failure"
          /\ Len(m) = 1 /\ Index(m) > 1 /\ called[m] = 1
          /\ report[m] = "Success"

HookTrace(c, kind) == [i \in 1..NumHooks |-> <<c, kind, i>>]

RECURSIVE EnvOfBracket(_), EnvOfContext(_)
\* The environment of the blocks of context c: what the before_all hooks of c
\* made of the environment c was entered with.
EnvOfContext(c) ==
    (IF c = Root THEN InitialEnvironment ELSE EnvOfBracket(c))
        \o HookTrace(c, "before_all")

\* The environment of block b: what the before_each hooks of its context made
\* of the environment of the blocks of that context.
EnvOfBracket(b) ==
    EnvOfContext(Parent(b)) \o HookTrace(Parent(b), "before_each")

\* C10: the environment of a block is the one the before_all hooks of its
\* context left, changed by the before_each (and at the end the after_each)
\* hooks of its own bracket and by nothing else, and the environment of a
\* context is changed by its own before_all and after_all hooks alone: no
\* mutation made for a block or inside it shows in the environment of a sibling
\* or of the context, under either policy.
C10_EnvironmentIsolated ==
    /\ \A b \in Blocks :
          /\ pc[b] \notin {"pending", "done"} => benv[b] = EnvOfBracket(b)
          /\ pc[b] = "done" =>
                benv[b] = EnvOfBracket(b) \o HookTrace(Parent(b), "after_each")
    /\ \A c \in Contexts :
          /\ (c # Root /\ pc[c] = "entered") => cenv[c] = EnvOfBracket(c)
          /\ pc[c] = "children" => cenv[c] = EnvOfContext(c)
          /\ pc[c] \in {"wrapped", "exited", "done"} =>
                cenv[c] = EnvOfContext(c) \o HookTrace(c, "after_all")

\* C10 witness: under the parallel policy a block starts from the environment
\* of its context after the bracket of a sibling, a nested context whose own
\* hooks have run, is done.
C10_Witness ==
    /\ phase = "running"
    /\ configuration.parallel
    /\ \E a, b \in Blocks :
          /\ a # b /\ Parent(a) = Parent(b)
          /\ a \in Contexts /\ pc[a] = "done"
          /\ pc[b] = "ready"
          /\ benv[b] = EnvOfBracket(b)
          /\ benv[a] # benv[b]

\* hook (c, kind, i) has been applied to environment
Applied(environment, c, kind) ==
    \A i \in 1..NumHooks :
        LET hook == <<c, kind, i>>
        IN  \E k \in 1..Len(environment) : environment[k] = hook

\* no hook of list kind of context c has been applied to environment
NotApplied(environment, c, kind) ==
    \A k \in 1..Len(environment) :
        ~(environment[k][1] = c /\ environment[k][2] = kind)

\* C11: in the visit of a context, under both policies, every before_all hook
\* has run before the bracket of any block starts; in the bracket of a block
\* the before_each hooks have run before the block is visited and the
\* after_each hooks run only when its visit is over (the function called and
\* the exit notified, or the after_all hooks of the nested context run); and
\* no after_all hook has run while the bracket of some block is not closed.
C11_HookOrderInContext ==
    \A c \in Contexts :
        /\ \A i \in 1..NumHooks :
              /\ (\E b \in Children(c) : pc[b] # "pending") =>
                    Fired(c, "before_all", i) = 1
              /\ Fired(c, "after_all", i) >= 1 =>
                    \A b \in Children(c) : pc[b] = "done"
        /\ \A b \in Children(c) :
              /\ pc[b] # "pending" =>
                    /\ Applied(benv[b], c, "before_all")
                    /\ Applied(benv[b], c, "before_each")
              /\ pc[b] # "done" => NotApplied(benv[b], c, "after_each")
              /\ pc[b] = "done" =>
                    /\ Applied(benv[b], c, "after_each")
                    /\ b \in Examples =>
                          called[b] = 1 /\ Received(1, "exit_example", b) = 1
                    /\ b \in Contexts =>
                          \A i \in 1..NumHooks : Fired(b, "after_all", i) = 1
              /\ (b \in Examples /\ called[b] >= 1) =>
                    Applied(benv[b], c, "before_each")

\* C11 witness: under the parallel policy the bracket of a block is closed
\* while the function of a block declared before it has been called and its
\* own bracket is still open; the after_all hooks have not run.
C11_Witness ==
    /\ configuration.parallel
    /\ \E a, b \in Examples :
          /\ Parent(a) = Parent(b) /\ Index(a) < Index(b)
          /\ pc[a] = "ran" /\ pc[b] = "done"
          /\ Fired(Parent(a), "before_all", 1) = 1
          /\ Fired(Parent(a), "after_all", 1) = 0

\* the nodes below node c
Descendants(c) ==
    { d \in Nodes : Len(d) > Len(c) /\ SubSeq(d, 1, Len(c)) = c }

\* something of the visit of node d has happened, as far as observer o, the
\* hooks and the functions of the examples can tell
Begun(o, d) ==
    IF d \in Examples
    THEN \/ called[d] >= 1
         \/ Received(o, "enter_example", d) >= 1
         \/ Received(o, "exit_example", d) >= 1
    ELSE \/ \E kind \in HookKinds, i \in 1..NumHooks : Fired(d, kind, i) >= 1
         \/ Received(o, "enter_context", d) >= 1
         \/ Received(o, "exit_context", d) >= 1

\* the hooks of context d have all run as often as they are to run
HooksComplete(d) ==
    \A i \in 1..NumHooks :
        /\ Fired(d, "before_all", i) = 1
        /\ Fired(d, "after_all", i) = 1
        /\ Fired(d, "before_each", i) = NumBlocks(d)
        /\ Fired(d, "after_each", i) = NumBlocks(d)

\* everything of the visit of node d has happened
Complete(o, d) ==
    IF d \in Examples
    THEN /\ called[d] = 1
         /\ Received(o, "enter_example", d) = 1
         /\ Received(o, "exit_example", d) = 1
    ELSE /\ \A i \in 1..NumHooks :
                Fired(d, "before_all", i) = 1 /\ Fired(d, "after_all", i) = 1
         /\ HasHeader(d) =>
                /\ Received(o, "enter_context", d) = 1
                /\ Received(o, "exit_context", d) = 1

\* C12: for every observer, under both policies: the function of an example
\* is called only after enter_example and exit_example comes only after the
\* call; no hook of a context with a header runs and nothing of the nodes
\* below it happens before its enter_context, and its exit_context comes only
\* when its hooks have run and everything below it has happened; nothing at
\* all comes before enter_suite, and when exit_suite has come everything has
\* happened.
C12_NotificationsBracket ==
    \A o \in 1..Len(observers) :
        /\ \A n \in Examples :
              /\ called[n] >= 1 => Received(o, "enter_example", n) = 1
              /\ Received(o, "exit_example", n) >= 1 => called[n] = 1
        /\ \A c \in Contexts \ {Root} :
              /\ \/ Received(o, "enter_context", c) = 1
                 \/ ~(Begun(o, c) \/ \E d \in Descendants(c) : Begun(o, d))
              /\ Received(o, "exit_context", c) >= 1 =>
                    /\ HooksComplete(c)
                    /\ \A d \in Descendants(c) : Complete(o, d)
        /\ \/ Received(o, "enter_suite", Root) = 1
           \/ ~(\E d \in Nodes : Begun(o, d))
        /\ Received(o, "exit_suite", Root) >= 1 =>
              /\ \A d \in Nodes : Complete(o, d)
              /\ \A c \in Contexts : HooksComplete(c)

\* C12 witness: under the parallel policy the function of an example in a
\* nested context has been called; the observers have had enter_suite,
\* enter_context and enter_example and none of the exit notifications.
C12_Witness ==
    /\ configuration.parallel
    /\ \E c \in Contexts \ {Root} : \E n \in Children(c) :
          /\ n \in Examples
          /\ pc[n] = "ran"
          /\ \A o \in 1..Len(observers) :
                /\ Received(o, "enter_suite", Root) = 1
                /\ Received(o, "enter_context", c) = 1
                /\ Received(o, "enter_example", n) = 1
                /\ Received(o, "exit_example", n) = 0
                /\ Received(o, "exit_context", c) = 0
                /\ Received(o, "exit_suite", Root) = 0

\* C13: a broadcast calls every registered observer once, in the order of
\* registration, and is over before the visit goes on: at every step the
\* observers have all received the same notifications, and when the visit of a
\* node has returned its report every observer has had the enter and the exit
\* notification of that node.
C13_BroadcastInRegistrationOrder ==
    /\ (\E o \in 1..Len(observers) : DOMAIN notified[o] # {}) => delivery # <<>>
    /\ delivery # <<>> =>
          /\ Len(delivery) = Len(observers)
          /\ \A i \in 1..Len(observers) : delivery[i] = observers[i]
          /\ \A i, j \in 1..Len(delivery) : i < j => delivery[i] < delivery[j]
    /\ \A o1, o2 \in 1..Len(observers) : notified[o1] = notified[o2]
    /\ \A o \in 1..Len(observers) :
          /\ \A n \in Examples : pc[n] \in {"exited", "done"} =>
                /\ Received(o, "enter_example", n) = 1
                /\ Received(o, "exit_example", n) = 1
          /\ \A c \in Contexts \ {Root} : pc[c] \in {"exited", "done"} =>
                /\ Received(o, "enter_context", c) = 1
                /\ Received(o, "exit_context", c) = 1
          /\ pc[Root] = "exited" =>
                /\ Received(o, "enter_suite", Root) = 1
                /\ Received(o, "exit_suite", Root) = 1

\* C13 witness: with at least two observers, the visit of an example has
\* returned its report while the run goes on, and the last broadcast called
\* the first observer, then the second.
C13_Witness ==
    /\ phase = "running"
    /\ Len(observers) >= 2
    /\ Len(delivery) >= 2 /\ delivery[1] = 1 /\ delivery[2] = 2
    /\ \E n \in Examples :
          /\ pc[n] = "exited"
          /\ \A o \in 1..Len(observers) : Received(o, "exit_example", n) = 1

\* C14: whenever run is not in progress, the silent panic hook that
\* prepare_before_run registers is no longer the panic hook of the process,
\* whether run returned a report, failing or not, or was left by a panic.
C14_OverrideRestoredOnEveryExit ==
    phase # "running" => panic_hook # prepare_before_run

\* C15 as stated: when run returns, the panic hook of the process is the one
\* that was registered when run was called.
C15_RunIsRoundTripOnHook ==
    [][(phase = "running" /\ phase' = "returned") => panic_hook' = hook_before]_vars

\* C15 amended: when run returns, the panic hook of the process is the default
\* one, whatever hook was registered when run was called; it is the hook of
\* before the run exactly when that one was the default hook.
C15_DefaultHookAfterRun ==
    [][(phase = "running" /\ phase' = "returned") =>
          /\ panic_hook' = "default"
          /\ (panic_hook' = hook_before) <=> (hook_before = "default")]_vars

\* C15 witness: a run called with a hook of the caller registered has returned
\* a failing report and the default hook is registered.
C15_Witness ==
    /\ phase = "returned"
    /\ hook_before = "custom"
    /\ panic_hook = "default"
    /\ is_failure(result)

\* C16: the process is alive as long as the Runner is not dropped; when a
\* Runner with exit_on_failure has returned a failing report, the functions of
\* all examples have been called, the hooks have all run, every observer has
\* had exit_suite, the default panic hook is back, the caller holds the report
\* and the process is still alive; it ends, with code 101, when the Runner is
\* dropped after a run that returned a failing report.
C16_ExitOnlyAtTeardown ==
    /\ phase # "dropped" => exit_code = <<>>
    /\ (phase = "returned" /\ configuration.exit_on_failure /\ is_failure(result)) =>
          /\ \A n \in Examples : called[n] = 1
          /\ \A c \in Contexts : HooksComplete(c)
          /\ \A o \in 1..Len(observers) : Received(o, "exit_suite", Root) = 1
          /\ panic_hook = "default"
          /\ result = suite_report
          /\ should_exit
    /\ (phase = "dropped" /\ configuration.exit_on_failure /\ any_failure) =>
          exit_code = <<101>>

\* C16 witness: a Runner with exit_on_failure is dropped after a run that went
\* through a nested context and returned a failing report, and the process
\* has ended with code 101.
C16_Witness ==
    /\ phase = "dropped"
    /\ exit_code = <<101>>
    /\ pc[Root] = "exited"
    /\ is_failure(result)
    /\ panic_hook = "default"
    /\ \E c \in Contexts \ {Root} : NumBlocks(c) >= 1
    /\ \A n \in Examples : called[n] = 1
    /\ \A o \in 1..Len(observers) : Received(o, "exit_suite", Root) = 1

\* C17: for an example and a nested context of the same context, the example
\* declared first: no hook of the nested context is ever applied to the
\* environment of the example, and under the serial policy no hook of the
\* nested context has run as long as the bracket of the example is open; the
\* hooks of a nested context run only once it is visited, its before_each and
\* after_each hooks as often as blocks of its own have been started and
\* finished.
C17_HooksOfNestedContextStayInside ==
    \A c \in Contexts \ {Root} :
        /\ \A n \in Examples :
              (Parent(n) = Parent(c) /\ Index(n) < Index(c)) =>
                  /\ \A kind \in HookKinds : NotApplied(benv[n], c, kind)
                  /\ (~configuration.parallel /\ pc[n] # "done") =>
                        \A kind \in HookKinds, i \in 1..NumHooks :
                            Fired(c, kind, i) = 0
        /\ \A i \in 1..NumHooks :
              /\ pc[c] \in {"pending", "ready", "entered"} =>
                    \A kind \in HookKinds : Fired(c, kind, i) = 0
              /\ Fired(c, "before_each", i) =
                    Cardinality({ b \in Children(c) : pc[b] # "pending" })
              /\ Fired(c, "after_each", i) =
                    Cardinality({ b \in Children(c) : pc[b] = "done" })

\* C17 witness: under the serial policy the bracket of an example is closed,
\* the nested context declared after it is visited and its before_all and
\* before_each hooks have run, for an example of its own; none was applied to
\* the environment of the first example.
C17_Witness ==
    /\ ~configuration.parallel
    /\ \E c \in Contexts \ {Root}, n \in Examples :
          /\ Parent(n) = Parent(c) /\ Index(n) < Index(c)
          /\ pc[n] = "done"
          /\ Fired(c, "before_all", 1) = 1
          /\ Fired(c, "before_each", 1) = 1
          /\ \E m \in Children(c) : m \in Examples /\ pc[m] = "ran"
          /\ \A kind \in HookKinds : NotApplied(benv[n], c, kind)

\* C18: while an example is entered and its function runs, no after_each hook
\* of its bracket and no after_all hook of its context has been applied to
\* its environment, no after_all hook of its context has run at all, and under
\* the serial policy every after_each hook of the context has run once for
\* each of the blocks declared before the example: i - 1 times for the i-th.
C18_AfterHooksAfterBodies ==
    \A c \in Contexts : \A n \in Children(c) :
        (n \in Examples /\ pc[n] \in {"entered", "ran"}) =>
            /\ NotApplied(benv[n], c, "after_each")
            /\ NotApplied(benv[n], c, "after_all")
            /\ \A i \in 1..NumHooks :
                  /\ Fired(c, "after_all", i) = 0
                  /\ ~configuration.parallel =>
                        Fired(c, "after_each", i) + 1 = Index(n)

\* C18 witness: under the serial policy the function of the third of three
\* examples has been called, the after_each hooks have run twice and the
\* after_all hooks have not.
C18_Witness ==
    /\ ~configuration.parallel
    /\ NumBlocks(Root) = 3
    /\ Children(Root) \subseteq Examples
    /\ pc[<<3>>] = "ran"
    /\ Fired(Root, "after_each", 1) = 2
    /\ Fired(Root, "after_all", 1) = 0

\* node n comes before node m in the depth-first walk in declaration order
\* (neither being above the other)
Before(n, m) ==
    \E k \in 1..Len(n) :
        /\ k <= Len(m)
        /\ n[k] < m[k]
        /\ \A j \in 1..(k - 1) : n[j] = m[j]

\* C19: under the serial policy, of two examples the one that comes first in
\* the depth-first walk in declaration order has had its function called and
\* its exit_example delivered, and its bracket closed, before the other gets
\* its enter_example or has its function called; no two examples are ever
\* entered at the same time.
C19_SerialIsDepthFirst ==
    ~configuration.parallel =>
        \A n, m \in Examples :
            /\ ( /\ Before(n, m)
                  /\ \/ called[m] >= 1
                     \/ \E o \in 1..Len(observers) :
                           Received(o, "enter_example", m) >= 1 )
               => /\ called[n] = 1
                  /\ \A o \in 1..Len(observers) : Received(o, "exit_example", n) = 1
                  /\ pc[n] = "done"
            /\ (n # m /\ pc[n] \in {"entered", "ran"}) => pc[m] \notin {"entered", "ran"}

\* C19 witness: under the serial policy the function of an example of the
\* root context has been called after an example in a nested context declared
\* before it was done.
C19_Witness ==
    /\ ~configuration.parallel
    /\ \E n, m \in Examples :
          /\ Len(n) = 2 /\ Len(m) = 1
          /\ Before(n, m)
          /\ pc[n] = "done"
          /\ pc[m] = "ran"

\* hook h1 was applied to environment before hook h2 was
Precedes(environment, h1, h2) ==
    \E k1, k2 \in 1..Len(environment) :
        k1 < k2 /\ environment[k1] = h1 /\ environment[k2] = h2

BeforeKinds == {"before_all", "before_each"}

\* every before hook of context p in environment was applied to it before
\* every before hook of context c
BeforeHooksInOrder(environment, p, c) ==
    LET at(x) == { k \in 1..Len(environment) :
                     environment[k][1] = x /\ environment[k][2] \in BeforeKinds }
    IN  \A k1 \in at(p), k2 \in at(c) : k1 < k2

\* C20: for a nested context, under both policies: when a before_all or
\* before_each hook of the nested context has run, the before_all hooks of its
\* parent have all run and the before_each hooks of the parent have run for
\* the bracket of the nested context; in the environment of the nested
\* context and of each of its blocks, the before_all and before_each hooks of
\* the parent were applied before any before hook of the nested context.
C20_ParentBeforeHooksFirst ==
    \A c \in Contexts \ {Root} :
        LET p == Parent(c) IN
        /\ pc[c] # "pending" =>
              \A j \in 1..NumHooks :
                  /\ Fired(p, "before_all", j) = 1
                  /\ Fired(p, "before_each", j) >=
                        Cardinality({ b \in Children(p) : b \in Contexts /\ pc[b] # "pending" })
        /\ \A i \in 1..NumHooks :
              (Fired(c, "before_all", i) >= 1 \/ Fired(c, "before_each", i) >= 1) =>
                  /\ pc[c] \notin {"pending", "ready", "entered"}
                  /\ \A j \in 1..NumHooks, kp \in BeforeKinds : Fired(p, kp, j) >= 1
        /\ pc[c] \notin {"pending", "ready", "entered"} =>
              /\ \A kp \in BeforeKinds : Applied(cenv[c], p, kp)
              /\ Applied(cenv[c], c, "before_all")
              /\ BeforeHooksInOrder(cenv[c], p, c)
        /\ \A b \in Children(c) :
              pc[b] # "pending" =>
                  /\ \A kp \in BeforeKinds :
                        Applied(benv[b], p, kp) /\ Applied(benv[b], c, kp)
                  /\ BeforeHooksInOrder(benv[b], p, c)

\* C20 witness: under the parallel policy an example of a nested context is
\* entered: the before_all and before_each hooks of the parent were applied
\* to its environment before those of the nested context.
C20_Witness ==
    /\ configuration.parallel
    /\ \E c \in Contexts \ {Root} : \E b \in Children(c) :
          /\ b \in Examples
          /\ pc[b] = "entered"
          /\ Fired(c, "before_each", 1) = 1
          /\ Precedes(benv[b], <<Parent(c), "before_each", NumHooks>>,
                               <<c, "before_all", 1>>)
          /\ Precedes(benv[b], <<Parent(c), "before_all", 1>>,
                               <<c, "before_each", 1>>)

\* C21: the exit flag of a Runner is set exactly when one of its runs has
\* returned a failing report; once set it stays set, whatever the runs that
\* follow return; the drop of a Runner with exit_on_failure whose flag is set
\* ends the process with code 101.
C21_ExitFlagSticky ==
    /\ [](should_exit = any_failure)
    /\ [][should_exit => should_exit']_vars
    /\ []((phase = "dropped" /\ configuration.exit_on_failure /\ should_exit) =>
              exit_code = <<ExitFailure>>)

\* C21 witness: a Runner with exit_on_failure whose last run returned a report
\* without failure is dropped with the flag of an earlier run set, and the
\* process ends with code 101.
C21_Witness ==
    /\ phase = "dropped"
    /\ configuration.exit_on_failure
    /\ pc[Root] = "exited"
    /\ Examples # {}
    /\ ~is_failure(result)
    /\ should_exit
    /\ exit_code = <<ExitFailure>>

\* C22: under the serial and under the parallel policy alike, a panic of a
\* hook or of an observer during the visit leaves run at once, by unwinding:
\* run does not go on to return, no report is made of the panic and the caller
\* gets none, neither then nor later.
C22_UnexpectedFailurePropagates ==
    /\ [](interruption # "none" =>
              /\ phase \in {"panicked", "dropped"}
              /\ result = NoReport
              /\ suite_report = NoReport
              /\ \A o \in 1..Len(observers) : Received(o, "exit_suite", Root) = 0)
    /\ [][(interruption = "none" /\ interruption' # "none") =>
              (phase = "running" /\ phase' = "panicked")]_vars
    /\ [][phase = "panicked" => phase' \in {"panicked", "dropped"}]_vars

\* C22 witness: under the parallel policy the run of a suite with a nested
\* context and an example that had returned Failure was left by a panic, and
\* the caller has no report.
C22_Witness ==
    /\ configuration.parallel
    /\ phase = "panicked"
    /\ interruption = "panic_after_failure"
    /\ \E c \in Contexts \ {Root} : NumBlocks(c) >= 1
    /\ result = NoReport

\* the visit of everything below context c is over: the nodes below c have
\* all been left, their hooks have run and every observer has had their
\* notifications
SubtreeOver(c) ==
    /\ \A i \in 1..NumHooks :
          Fired(c, "before_all", i) = 1 /\ Fired(c, "after_all", i) = 1
    /\ \A d \in Descendants(c) :
          /\ pc[d] = "done"
          /\ d \in Contexts => HooksComplete(d)
          /\ \A o \in 1..Len(observers) : Complete(o, d)

\* C23: when no hook, function or observer panics, a run that has started
\* returns, under both policies (no run goes on for ever, and a run ends by
\* returning); when the visit of a context has returned, and when run has
\* returned, nothing below is pending or still running: every node of the
\* subtree has been left, every hook has run, every function has been called
\* and every notification has been delivered.
C23_SynchronousAndTerminating ==
    /\ []<>(phase # "running")
    /\ [][(phase = "running" /\ phase' # "running") => phase' = "returned"]_vars
    /\ [](\A c \in Contexts : pc[c] \in {"wrapped", "exited", "done"} => SubtreeOver(c))
    /\ [](phase = "returned" =>
              /\ pc[Root] = "exited"
              /\ SubtreeOver(Root)
              /\ \A o \in 1..Len(observers) : Received(o, "exit_suite", Root) = 1)

\* C23 witness: a run under the parallel policy in which a block finished
\* ahead of one declared before it has returned, from a suite with a nested
\* context that holds a block.
C23_Witness ==
    /\ configuration.parallel
    /\ phase = "returned"
    /\ overtaken
    /\ \E c \in Contexts \ {Root} : NumBlocks(c) >= 1
    /\ SubtreeOver(Root)

\* the hooks that were applied to the environment, list by list: the hooks of
\* a list come one after the other, first to last as declared, each once
InDeclarationOrder(environment) ==
    /\ \A k \in 1..Len(environment) :
          LET hook == environment[k]
          IN  /\ hook[3] > 1 =>
                    /\ k > 1
                    /\ environment[k - 1] = <<hook[1], hook[2], hook[3] - 1>>
              /\ hook[3] < NumHooks =>
                    /\ k < Len(environment)
                    /\ environment[k + 1] = <<hook[1], hook[2], hook[3] + 1>>
    /\ \A k, l \in 1..Len(environment) : environment[k] = environment[l] => k = l

\* C24: in every environment the hooks of each of the four lists of a context
\* have been applied in the order of their declaration, hook i right before
\* hook i + 1, each once; the after_each and the after_all hooks too, first to
\* last; and the hooks of a list have all run as often as the first of them.
C24_HooksInDeclarationOrder ==
    /\ \A c \in Contexts : InDeclarationOrder(cenv[c])
    /\ \A b \in Blocks : InDeclarationOrder(benv[b])
    /\ \A c \in Contexts, kind \in HookKinds, i \in 1..NumHooks :
          Fired(c, kind, i) = Fired(c, kind, 1)

\* C24 witness: the visit of a nested context with an example is over: its
\* after_all hooks were applied to its environment in the order of their
\* declaration, after its before_all hooks, and so were the after_each hooks
\* of its bracket and those of the bracket of its example.
C24_Witness ==
    \E c \in Contexts \ {Root} : \E n \in Children(c) :
        /\ n \in Examples
        /\ pc[c] = "done"
        /\ Precedes(cenv[c], <<c, "before_all", NumHooks>>, <<c, "after_all", 1>>)
        /\ Precedes(cenv[c], <<c, "after_all", 1>>, <<c, "after_all", NumHooks>>)
        /\ Precedes(benv[c], <<Parent(c), "after_each", 1>>,
                             <<Parent(c), "after_each", NumHooks>>)
        /\ Precedes(benv[n], <<c, "before_each", NumHooks>>, <<c, "after_each", 1>>)
        /\ Precedes(benv[n], <<c, "after_each", 1>>, <<c, "after_each", NumHooks>>)

\* C25: enter_context and exit_context are broadcast for the contexts with a
\* header and for no other node: the root context of the suite, which has
\* none, is visited and its hooks run without either notification; for a
\* context with a header every observer gets enter_context once, when its
\* visit starts, and exit_context once, when its visit ends.
C25_ContextEventsIffHeader ==
    \A o \in 1..Len(observers) :
        /\ \A c \in Contexts :
              IF c # Root
              THEN /\ Received(o, "enter_context", c) =
                          (IF pc[c] \in {"pending", "ready"} THEN 0 ELSE 1)
                   /\ Received(o, "exit_context", c) =
                          (IF pc[c] \in {"exited", "done"} THEN 1 ELSE 0)
              ELSE /\ Received(o, "enter_context", c) = 0
                   /\ Received(o, "exit_context", c) = 0
        /\ \A n \in Examples :
              /\ Received(o, "enter_context", n) = 0
              /\ Received(o, "exit_context", n) = 0

\* C25 witness: a run has returned; the hooks of the root context have run and
\* no observer has had enter_context or exit_context for it, and every
\* observer has had both once for a nested context.
C25_Witness ==
    /\ phase = "returned"
    /\ \A i \in 1..NumHooks :
          Fired(Root, "before_all", i) = 1 /\ Fired(Root, "after_all", i) = 1
    /\ \E c \in Contexts \ {Root} : \A o \in 1..Len(observers) :
          /\ Received(o, "enter_context", Root) = 0
          /\ Received(o, "exit_context", Root) = 0
          /\ Received(o, "enter_context", c) = 1
          /\ Received(o, "exit_context", c) = 1

\* the observers were given a report with notification event of node n
Given(event, n) == <<event, n>> \in DOMAIN handed

\* C26: the report the observers are given with exit_example is the report
\* the function of the example returned, and it is the report of the
\* BlockReport at the place of the example in the report of its context; the
\* report given with exit_context is the ContextReport of that context, with
\* the BlockReport of every block of the context, at the index of the block,
\* and it is the report of the BlockReport of the context; the report given
\* with exit_suite is the SuiteReport that run returns. None is given before
\* the exit of its node.
C26_ObserversGetTheReturnedReports ==
    /\ \A n \in Examples :
          /\ Given("exit_example", n) <=> pc[n] \in {"exited", "done"}
          /\ Given("exit_example", n) =>
                /\ handed[<<"exit_example", n>>] = report[n]
                /\ breport[n] = BlockReportExample(n, handed[<<"exit_example", n>>])
                /\ pc[Parent(n)] \in {"wrapped", "exited", "done"} =>
                      report[Parent(n)][Index(n)].report = handed[<<"exit_example", n>>]
    /\ \A c \in Contexts \ {Root} :
          /\ Given("exit_context", c) <=> pc[c] \in {"exited", "done"}
          /\ Given("exit_context", c) =>
                /\ handed[<<"exit_context", c>>] = report[c]
                /\ Len(handed[<<"exit_context", c>>]) = NumBlocks(c)
                /\ \A b \in Children(c) :
                      handed[<<"exit_context", c>>][Index(b)] = breport[b]
                /\ breport[c] = BlockReportContext(c, handed[<<"exit_context", c>>])
                /\ pc[Parent(c)] \in {"wrapped", "exited", "done"} =>
                      report[Parent(c)][Index(c)].report = handed[<<"exit_context", c>>]
    /\ ~Given("exit_context", Root)
    /\ Given("exit_suite", Root) <=> pc[Root] = "exited"
    /\ Given("exit_suite", Root) =>
          /\ handed[<<"exit_suite", Root>>] = suite_report
          /\ handed[<<"exit_suite", Root>>].context = report[Root]
          /\ phase = "returned" => result = handed[<<"exit_suite", Root>>]

\* C26 witness: a run has returned a failing report; the observers were given
\* that report with exit_suite, the report Failure with the exit_example of
\* an example of a nested context, and with the exit_context of that context
\* a report that holds it.
C26_Witness ==
    /\ phase = "returned"
    /\ pc[Root] = "exited"
    /\ result = handed[<<"exit_suite", Root>>]
    /\ is_failure(result)
    /\ \E c \in Contexts \ {Root} : \E n \in Children(c) :
          /\ n \in Examples
          /\ NumBlocks(c) >= 2
          /\ handed[<<"exit_example", n>>] = "Failure"
          /\ handed[<<"exit_context", c>>][Index(n)] = BlockReportExample(n, "Failure")

RECURSIVE ReportInDeclarationOrder(_)
\* the ContextReport of context c made of what the functions of the examples
\* returned, block by block in the order of declaration
ReportInDeclarationOrder(c) ==
    [i \in 1..NumBlocks(c) |->
        IF suite[Append(c, i)] = "Example"
        THEN BlockReportExample(Append(c, i), report[Append(c, i)])
        ELSE BlockReportContext(Append(c, i), ReportInDeclarationOrder(Append(c, i)))]

\* C27: the policy and the interleaving of the branches have no part in the
\* report: under both policies the function of an example is called with the
\* environment made by the before hooks of the contexts above it, whatever
\* the other blocks have come to, and the report run returns is made of what
\* the functions returned, put in the order of declaration. Functions that
\* depend on their environment alone return the same under both policies, so
\* the two reports are equal.
C27_PoliciesAgreeOnReport ==
    /\ \A n \in Examples :
          pc[n] \in {"ready", "entered", "ran", "exited"} => benv[n] = EnvOfBracket(n)
    /\ phase = "returned" =>
          result = SuiteReport(ReportInDeclarationOrder(Root))

\* C27 witness: a run under the parallel policy in which a block finished
\* ahead of a block declared before it has returned; two examples of one
\* context returned different reports.
C27_Witness ==
    /\ configuration.parallel
    /\ phase = "returned"
    /\ overtaken
    /\ \E a, b \in Examples :
          /\ Parent(a) = Parent(b) /\ Index(a) < Index(b)
          /\ report[a] = "Failure" /\ report[b] = "Success"
    /\ result = SuiteReport(ReportInDeclarationOrder(Root))

\* C28: in a run, the after_all hooks of a context are given the environment
\* as its before_all hooks left it and change that one alone; the after_each
\* hooks of the bracket of a block are given the environment as the
\* before_each hooks of the bracket left it and change that one alone; the
\* call of the function of an example changes no environment; the hooks of a
\* context change the environment of no block, its own bracket included; and
\* no step of the run changes the suite or the environment the suite holds
\* (the run starts from a copy of it).
C28_EnvironmentFlowsDownward ==
    [][(phase = "running" /\ phase' = "running") =>
          /\ suite' = suite
          /\ pc[Root] = "pending" => cenv[Root] = InitialEnvironment
          /\ \A c \in Contexts :
                /\ (pc[c] = "children" /\ pc'[c] = "wrapped") =>
                      /\ cenv[c] = EnvOfContext(c)
                      /\ cenv' = [cenv EXCEPT ![c] = @ \o HookTrace(c, "after_all")]
                      /\ benv' = benv
                /\ (pc[c] = "entered" /\ pc'[c] = "children") =>
                      /\ cenv' = [cenv EXCEPT ![c] = @ \o HookTrace(c, "before_all")]
                      /\ benv' = benv
          /\ \A b \in Blocks :
                /\ (pc[b] = "exited" /\ pc'[b] = "done") =>
                      /\ benv[b] = EnvOfBracket(b)
                      /\ benv' = [benv EXCEPT ![b] = @ \o HookTrace(Parent(b), "after_each")]
                      /\ cenv' = cenv
                /\ (b \in Examples /\ pc[b] = "entered" /\ pc'[b] = "ran") =>
                      /\ benv' = benv
                      /\ cenv' = cenv]_vars

\* C28 witness: the bracket of a nested context whose hooks have run and whose
\* example has been called is closed: the environment of the bracket holds
\* the after_each hooks right after the before_each hooks of the bracket, and
\* the environment of the root holds its own before_all hooks alone.
C28_Witness ==
    /\ phase = "running"
    /\ pc[Root] = "children"
    /\ cenv[Root] = HookTrace(Root, "before_all")
    /\ \E c \in Contexts \ {Root} : \E n \in Children(c) :
          /\ n \in Examples /\ called[n] = 1
          /\ pc[c] = "done"
          /\ Fired(c, "after_all", 1) = 1
          /\ benv[c] = EnvOfBracket(c) \o HookTrace(Root, "after_each")

\* the notification that opens, that closes the visit of block b
EnterEvent(b) == IF b \in Examples THEN "enter_example" ELSE "enter_context"
ExitEvent(b) == IF b \in Examples THEN "exit_example" ELSE "exit_context"

\* some hook of list kind of context c has been applied to environment
Started(environment, c, kind) ==
    \E k \in 1..Len(environment) : environment[k][1] = c /\ environment[k][2] = kind

\* C29: for every observer: once a before_all hook of a context with a header
\* has run the observer has had its enter_context, and once it has had its
\* exit_context the after_all hooks of the context have all run; once it has
\* had the enter_example or enter_context of a block the before_each hooks of
\* the context of the block have all been applied to the environment of the
\* bracket and none of its after_each hooks has, and once an after_each hook
\* has been applied to it the observer has had the exit_example or
\* exit_context of the block.
C29_EventsAndHooksNest ==
    \A o \in 1..Len(observers) :
        /\ \A c \in Contexts \ {Root} :
              /\ (\E i \in 1..NumHooks : Fired(c, "before_all", i) >= 1) =>
                    Received(o, "enter_context", c) = 1
              /\ Received(o, "enter_context", c) = 1 /\ pc[c] = "entered" =>
                    \A i \in 1..NumHooks : Fired(c, "before_all", i) = 0
              /\ Received(o, "exit_context", c) >= 1 =>
                    \A i \in 1..NumHooks : Fired(c, "after_all", i) = 1
        /\ \A b \in Blocks :
              /\ Received(o, EnterEvent(b), b) >= 1 =>
                    Applied(benv[b], Parent(b), "before_each")
              /\ (Received(o, EnterEvent(b), b) >= 1 /\ Received(o, ExitEvent(b), b) = 0) =>
                    ~Started(benv[b], Parent(b), "after_each")
              /\ Started(benv[b], Parent(b), "after_each") =>
                    Received(o, ExitEvent(b), b) = 1

\* C29 witness: a nested context has had its exit_context after its after_all
\* hooks and the after_each hooks of its bracket have not run yet, while an
\* example of it, visited inside the before_each and after_each hooks of the
\* nested context, is done.
C29_Witness ==
    \E c \in Contexts \ {Root} : \E n \in Children(c) :
        /\ n \in Examples
        /\ pc[c] = "exited"
        /\ pc[n] = "done"
        /\ Fired(c, "after_all", NumHooks) = 1
        /\ ~Started(benv[c], Parent(c), "after_each")
        /\ Started(benv[n], c, "after_each")
        /\ \A o \in 1..Len(observers) :
              /\ Received(o, "exit_context", c) = 1
              /\ Received(o, "exit_example", n) = 1

\* C30: the exit flag changes in one step only, the return of run, when the
\* visit of the whole suite is over, no branch is left and the default panic
\* hook is back; a run left by a panic leaves the flag as it was; and the drop
\* of a Runner with exit_on_failure none of whose runs returned a failing
\* report does not end the process, even when its run was left by a panic
\* after an example had returned Failure.
C30_FlagWrittenAfterTraversalOnly ==
    /\ [][should_exit' # should_exit =>
              /\ phase = "running" /\ phase' = "returned"
              /\ pc[Root] = "exited"
              /\ \A b \in Blocks : pc[b] = "done"
              /\ panic_hook' = clean_after_run]_vars
    /\ [][(phase = "running" /\ phase' = "panicked") => should_exit' = should_exit]_vars
    /\ []((interruption # "none" /\ ~any_failure) =>
              /\ ~should_exit
              /\ exit_code = <<>>)

\* C30 witness: a Runner with exit_on_failure whose run was left by a panic
\* after an example had returned Failure has been dropped: its flag is not
\* set and the process has not been ended.
C30_Witness ==
    /\ phase = "dropped"
    /\ configuration.exit_on_failure
    /\ interruption = "panic_after_failure"
    /\ ~any_failure
    /\ ~should_exit
    /\ exit_code = <<>>

----------------------------------------------------------------------------

Next ==
    \/ \E s \in Suites : RunStart(s)
    \/ EnterSuite
    \/ \E c \in Contexts : EnterContext(c)
    \/ \E c \in Contexts : BeforeAll(c)
    \/ \E b \in Blocks : StartBlock(b)
    \/ \E n \in Examples : EnterExample(n)
    \/ \E n \in Examples, r \in ExampleReports : RunExample(n, r)
    \/ \E n \in Examples : ExitExample(n)
    \/ \E b \in Blocks : FinishBlock(b)
    \/ \E c \in Contexts : AfterAll(c)
    \/ \E c \in Contexts : ExitContext(c)
    \/ ExitSuite
    \/ RunReturn
    \/ Panic
    \/ Drop

Spec == Init /\ [][Next]_vars

\* The Runner with a caller that registers panic hooks of its own.
NextWithHooks ==
    \/ Next
    \/ SetHook

SpecWithHooks == Init /\ [][NextWithHooks]_vars

\* A step of a run whose hooks, functions and observers all return.
Traverse ==
    \/ EnterSuite
    \/ \E c \in Contexts : EnterContext(c)
    \/ \E c \in Contexts : BeforeAll(c)
    \/ \E b \in Blocks : StartBlock(b)
    \/ \E n \in Examples : EnterExample(n)
    \/ \E n \in Examples, r \in ExampleReports : RunExample(n, r)
    \/ \E n \in Examples : ExitExample(n)
    \/ \E b \in Blocks : FinishBlock(b)
    \/ \E c \in Contexts : AfterAll(c)
    \/ \E c \in Contexts : ExitContext(c)
    \/ ExitSuite
    \/ RunReturn

NextReturning ==
    \/ \E s \in Suites : RunStart(s)
    \/ Traverse
    \/ Drop

\* The Runner with suites whose hooks, functions and observers never panic.
\* run is a plain call: the thread that calls it, and under the parallel
\* policy the threads of the pool, go on as long as there is a step to take
\* (every step of Traverse moves pc or phase).
SpecReturning == Init /\ [][NextReturning]_vars /\ WF_<<phase, pc>>(Traverse)

====
